---- MODULE Spec2Model ----
(***************************************************************************)
(* Storage layout of a Fortran scope as flang computes it in               *)
(* lib/Semantics/compute-offsets.cpp: ComputeOffsetsHelper assigns byte    *)
(* offsets, sizes and alignments to the symbols of a scope, resolves       *)
(* EQUIVALENCE sets into dependency edges and lays out COMMON blocks.      *)
(*                                                                         *)
(* A std::optional<T> is a sequence: <<>> is std::nullopt, <<v>> a value.  *)
(* A null pointer to a common block is <<>> as well.  The std::map members *)
(* dependents_ and equivalenceBlock_ are functions whose DOMAIN is the key *)
(* set; they are iterated in ascending key order (SymbolAddressCompare),   *)
(* and a symbol's number stands for its address and for its position in    *)
(* scope.GetSymbols().                                                     *)
(***************************************************************************)
EXTENDS Integers, Sequences, FiniteSets, TLC

\* ------------------------------------------------------------------ bounds
\* Symbols owned by the root scope.
NumSyms == 4
\* Of these, the symbols that are data objects in the mixed and the chain
\* families (the others are subprogram names).
DataSyms == 3
\* Equivalence sets of the root scope in the family of scalars.
MaxSets == 3
\* Equivalence sets of the root scope in the family with zero-size symbols.
MaxZeroSets == 2
\* Largest distance between the first bytes of two equivalenced symbols that
\* is tried when an assignment satisfying the sets is looked for.
MaxSpread == 12
\* Objects of one equivalence set in the chain family.
MaxSetLen == 3
\* Objects of all the equivalence sets together in the chain family.
MaxChainObjects == 5
\* Members of the common block in the common-block family.
MaxMembers == 3
\* Top-level calls of ComputeOffsets on the root scope.
MaxCalls == 2
\* Re-entrant calls made while the root scope is being processed.
MaxNested == 1
\* Largest offset handed to Align in the alignment family.
MaxOffset == 40

VARIABLES
  \* --- the program being laid out (read only for the helper)
  symType,           \* symbol -> what the type oracle says about it
  equivalenceSets,   \* scope.equivalenceSets() of the root scope
  commonBlocks,      \* scope.commonBlocks(): block -> details.objects()
  scopeKind,         \* scope -> kind of scope
  targetOS,          \* llvm::Triple OS of the default target
  maxAlignment,      \* targetCharacteristics().maxAlignment()
  \* --- fields the helper writes
  offset,            \* Symbol::offset()
  size,              \* Symbol::size()
  commonBlock,       \* ObjectEntityDetails::commonBlock()
  scopeSize,         \* Scope::size()
  scopeAlignment,    \* Scope::alignment(), an optional
  blockSize,         \* size of the common block symbol
  blockAlignment,    \* CommonBlockDetails::alignment()
  messages,          \* diagnostics handed to context_.Say / context_.Warn
  aborted,           \* a CHECK failed (the compiler died)
  \* --- ComputeOffsetsHelper of the call in progress on the root scope
  offset_,
  alignment_,
  dependents_,
  equivalenceBlock_,
  \* --- control
  pc,                \* position of the root call inside Compute
  setIndex,          \* next equivalence set of the loop at line 148
  calls,             \* finished top-level calls on the root scope
  nested,            \* re-entrant calls made so far
  \* --- the alignment family: arguments and results of Align
  alignIn,
  alignOut

configVars == <<symType, equivalenceSets, commonBlocks, scopeKind, targetOS,
                maxAlignment>>
programVars == <<offset, size, commonBlock, scopeSize, scopeAlignment,
                 blockSize, blockAlignment, messages, aborted>>
helperVars == <<offset_, alignment_, dependents_, equivalenceBlock_>>
controlVars == <<pc, setIndex, calls, nested>>
alignVars == <<alignIn, alignOut>>
vars == <<configVars, programVars, helperVars, controlVars, alignVars>>

\* ------------------------------------------------------------ small helpers
Max(a, b) == IF a >= b THEN a ELSE b
Min(a, b) == IF a <= b THEN a ELSE b

HasValue(opt) == opt # <<>>

\* std::optional::value_or
ValueOr(opt, default) == IF opt # <<>> THEN opt[1] ELSE default

\* The elements of a finite set of integers in ascending order.
RECURSIVE Ascending(_)
Ascending(S) ==
  IF S = {} THEN <<>>
  ELSE LET m == CHOOSE x \in S : \A y \in S : x <= y
       IN <<m>> \o Ascending(S \ {m})

\* x & ~y on non-negative integers, bit by bit.
RECURSIVE AndNot(_, _)
AndNot(x, y) ==
  IF x = 0 THEN 0
  ELSE (x % 2) * (1 - (y % 2)) + 2 * AndNot(x \div 2, y \div 2)

\* ------------------------------------------------------------ scope topology
Root == "Root"
Child == "Child"
Scopes == {Root, Child}

RootSyms == 1..NumSyms
ChildSyms == {NumSyms + 1, NumSyms + 2}
AllSyms == RootSyms \cup ChildSyms

\* scope.children()
Children(scope) == IF scope = Root THEN <<Child>> ELSE <<>>

\* scope.GetSymbols()
GetSymbols(scope) ==
  IF scope = Root THEN Ascending(RootSyms) ELSE Ascending(ChildSyms)

\* scope.equivalenceSets(), taken in the order `sets` for the root scope
ScopeEquivalenceSets(scope, sets) == IF scope = Root THEN sets ELSE <<>>

\* scope.commonBlocks()
ScopeCommonBlocks(scope) ==
  IF scope = Root THEN [b \in 1..Len(commonBlocks) |-> b] ELSE <<>>

\* scope.symbol() && scope.IsDerivedTypeWithKindParameter()
IsDerivedTypeWithKindParameter(scope) ==
  scopeKind[scope] = "DerivedTypeWithKindParameter"

\* ------------------------------------------------------------------ oracles
\* FindCommonBlockContaining(symbol): the block the symbol's details name.
FindCommonBlockContaining(s, symbol) == s.commonBlock[symbol]

\* GetSizeAndAlignment(symbol, entire): a plain procedure has no storage;
\* every other class of symbol gets what the type oracle measured, for the
\* whole object or for one element.
GetSizeAndAlignment(symbol, entire) ==
  LET ty == symType[symbol] IN
  IF ty.details = "Subprogram" THEN [size |-> 0, alignment |-> 0]
  ELSE IF entire THEN [size |-> ty.size, alignment |-> ty.alignment]
  ELSE [size |-> ty.elemSize, alignment |-> ty.alignment]

\* context_.defaultKinds().GetDefaultKind(TypeCategory::Character)
GetDefaultKind(category) == IF category = "Character" THEN 1 ELSE 4

isReal8OrLarger(ty) == ty.category \in {"Real", "Complex"} /\ ty.kind[1] > 4

\* HasSpecialAlign(sym, scope): on AIX a component of a BIND(C) derived
\* type that is not the first one and is a wide real is aligned to 4
\* bytes.  No component of the modelled types is itself of derived type,
\* so CompAlignment is never reached.
HasSpecialAlign(sym, scope) ==
  IF /\ symType[sym].category # "None"
     /\ scopeKind[scope] = "BindCDerivedType"
     /\ sym # GetSymbols(scope)[1]
     /\ isReal8OrLarger(symType[sym])
  THEN <<4>>
  ELSE <<>>

\* --------------------------------------------------------------------- Align
\* The alignments a type or a target can have.
Alignments == {1, 2, 4, 8, 16}

\* Align without the addition of alignment - 1: it rounds down.
AlignDown(x, alignment) ==
  LET a == Min(alignment, maxAlignment)
  IN IF a = 0 THEN 0 ELSE AndNot(x, a - 1)

\* (x + alignment - 1) & -alignment after the clamp to maxAlignment.  For
\* alignment > 0, -alignment = ~(alignment - 1); -0 is 0 and masks all bits.
Align(x, alignment) ==
  LET a == Min(alignment, maxAlignment)
  IN IF a = 0 THEN 0 ELSE AndNot(x + a - 1, a - 1)

\* ------------------------------------------------------------ ComputeOffset
\* Offset of an equivalence object from the start of its variable.
RECURSIVE Linearize(_, _, _, _)
Linearize(subscripts, shape, i, acc) ==
  LET off == acc + subscripts[i] - shape[i].lbound
  IN IF i = 1 THEN off
     ELSE Linearize(subscripts, shape, i - 1,
                    off * (shape[i - 1].ubound - shape[i - 1].lbound + 1))

\* Lines 380-389: the substring start added to the byte offset `result`.
AddSubstring(object, ty, result) ==
  IF HasValue(object.substringStart)
  THEN result + (IF HasValue(ty.kind) THEN ty.kind[1]
                 ELSE GetDefaultKind("Character"))
                * (object.substringStart[1] - 1)
  ELSE result

ComputeOffset(object) ==
  AddSubstring(object, symType[object.symbol],
    (IF /\ object.subscripts # <<>>
        /\ symType[object.symbol].details = "ObjectEntity"
     THEN Linearize(object.subscripts, symType[object.symbol].shape,
                    Len(object.subscripts), 0)
     ELSE 0) * GetSizeAndAlignment(object.symbol, FALSE).size)

\* ------------------------------------------------------------------ Resolve
RECURSIVE Resolve(_, _)
Resolve(dependents, dep) ==
  IF dep.symbol \notin DOMAIN dependents THEN dep
  ELSE LET result == Resolve(dependents, dependents[dep.symbol])
       IN [result EXCEPT !.offset = @ + dep.offset, !.object = dep.object]

\* ----------------------------------------------------------------- messages
Say(s, text, symbol, other, block, bytes) ==
  [s EXCEPT !.messages = Append(@,
     [severity |-> "error", text |-> text, symbol |-> symbol,
      other |-> other, block |-> block, bytes |-> bytes])]

Warn(s, text, symbol, other, block, bytes) ==
  [s EXCEPT !.messages = Append(@,
     [severity |-> "warning", text |-> text, symbol |-> symbol,
      other |-> other, block |-> block, bytes |-> bytes])]

\* ----------------------------------------------------------------- DoSymbol
\* Lines 401-409: the symbol is placed at the cursor rounded up to alignVal.
\* Returns the new state and the padding that was needed for alignment.
PlaceAt(s, symbol, bytes, alignVal, aligned) ==
  [s |-> [s EXCEPT !.size[symbol] = bytes,
                   !.offset[symbol] = aligned,
                   !.offset_ = aligned + bytes,
                   !.alignment_ = Max(@, alignVal)],
   padding |-> aligned - s.offset_]

PlaceAligned(s, symbol, bytes, alignVal) ==
  PlaceAt(s, symbol, bytes, alignVal, Align(s.offset_, alignVal))

DoSymbol(s, symbol, newAlign) ==
  IF symType[symbol].details \notin {"ObjectEntity", "ProcEntity"}
  THEN [s |-> s, padding |-> 0]
  ELSE IF GetSizeAndAlignment(symbol, TRUE).size = 0
  THEN [s |-> s, padding |-> 0]
  ELSE PlaceAligned(s, symbol, GetSizeAndAlignment(symbol, TRUE).size,
                    ValueOr(newAlign, GetSizeAndAlignment(symbol, TRUE).alignment))

\* --------------------------------------------------- DoEquivalenceBlockBase
DoEquivalenceBlockBase(s, symbol) ==
  IF s.size[symbol] > s.equivalenceBlock_[symbol].size
  THEN [s EXCEPT !.equivalenceBlock_[symbol].size = s.size[symbol]]
  ELSE s

\* --------------------------------------------------------- DoEquivalenceSet
\* The first loop: every object resolved through the edges known so far.
SymbolOffsets(s, set) ==
  [i \in 1..Len(set) |->
     Resolve(s.dependents_,
             [symbol |-> set[i].symbol, offset |-> ComputeOffset(set[i]),
              object |-> set[i]])]

\* The loop below with > for >=: a later object replaces the current
\* representative only when its resolved offset is larger.
RECURSIVE RepresentativeLoopStrict(_, _, _)
RepresentativeLoopStrict(symbolOffsets, i, representative) ==
  IF i > Len(symbolOffsets) THEN representative
  ELSE RepresentativeLoopStrict(symbolOffsets, i + 1,
         IF \/ ~HasValue(representative)
            \/ symbolOffsets[i].offset > symbolOffsets[representative[1]].offset
         THEN <<i>>
         ELSE representative)

\* The representative the first loop ends with: index i replaces the
\* current one when its resolved offset is >= the current one's.
RECURSIVE RepresentativeLoop(_, _, _)
RepresentativeLoop(symbolOffsets, i, representative) ==
  IF i > Len(symbolOffsets) THEN representative
  ELSE RepresentativeLoop(symbolOffsets, i + 1,
         IF \/ ~HasValue(representative)
            \/ symbolOffsets[i].offset >= symbolOffsets[representative[1]].offset
         THEN <<i>>
         ELSE representative)

Representative(symbolOffsets) == RepresentativeLoop(symbolOffsets, 1, <<>>)

\* std::map::emplace: an existing key keeps its value.
Emplace(map, key, value) ==
  IF key \in DOMAIN map THEN map ELSE map @@ (key :> value)

\* The entry below with the edge's offset taken from the representative
\* alone, the object's own resolved offset forgotten.
EdgeFromBaseOffset(s, so, base) ==
  IF so.symbol = base.symbol
  THEN IF so.offset # base.offset
       THEN Say(s, "cannot have the same first storage unit",
                so.symbol, so.symbol, <<>>, so.offset)
       ELSE s
  ELSE [s EXCEPT !.dependents_ =
          Emplace(@, so.symbol,
                  [symbol |-> base.symbol,
                   offset |-> base.offset,
                   object |-> so.object])]

\* The second loop, one entry: an object of the base's own symbol must sit
\* at the base's offset, any other symbol becomes a dependent of the base.
Edge(s, so, base) ==
  IF so.symbol = base.symbol
  THEN IF so.offset # base.offset
       THEN Say(s, "cannot have the same first storage unit",
                so.symbol, so.symbol, <<>>, so.offset)
       ELSE s
  ELSE [s EXCEPT !.dependents_ =
          Emplace(@, so.symbol,
                  [symbol |-> base.symbol,
                   offset |-> base.offset - so.offset,
                   object |-> so.object])]

RECURSIVE EdgeLoop(_, _, _, _)
EdgeLoop(s, symbolOffsets, base, i) ==
  IF i > Len(symbolOffsets) THEN s
  ELSE EdgeLoop(Edge(s, symbolOffsets[i], base), symbolOffsets, base, i + 1)

\* Lines 323-353, given what the first loop computed.
EdgesTo(s, symbolOffsets, representative) ==
  IF ~HasValue(representative)
  THEN [s EXCEPT !.aborted = TRUE]   \* CHECK(representative)
  ELSE EdgeLoop(s, symbolOffsets, symbolOffsets[representative[1]], 1)

EdgesFrom(s, symbolOffsets) ==
  EdgesTo(s, symbolOffsets, Representative(symbolOffsets))

DoEquivalenceSet(s, set) == EdgesFrom(s, SymbolOffsets(s, set))

\* The loop at line 148 over the sets from index i on.
RECURSIVE DoEquivalenceSets(_, _, _)
DoEquivalenceSets(s, sets, i) ==
  IF i > Len(sets) \/ s.aborted THEN s
  ELSE DoEquivalenceSets(DoEquivalenceSet(s, sets[i]), sets, i + 1)

\* ------------------------------------------------------------ DoCommonBlock
\* The member is placed and its padding is never warned about.
PlaceMemberSilently(placed, block, symbol) == placed.s

\* Lines 245-249: the member is placed; padding is warned about.
PlaceMember(placed, block, symbol) ==
  IF placed.padding # 0
  THEN Warn(placed.s, "requires padding", symbol, symbol, <<block>>,
            placed.padding)
  ELSE placed.s

\* What one branch of lines 251-285 leaves: the state, eqIter (an optional
\* key of equivalenceBlock_) and the set `previous`.
Branch(s, eqIter, previous) ==
  [s |-> s, eqIter |-> eqIter, previous |-> previous]

\* Lines 259-284: the member depends on `dep`, whose base sits in baseBlock.
Aliased(s, previous, block, symbol, dep, baseBlock) ==
  IF HasValue(baseBlock)
  THEN IF baseBlock = <<block>>
       THEN IF \/ dep.symbol \notin previous
               \/ s.offset[dep.symbol] # s.offset[symbol] - dep.offset
            THEN Branch(Say(s, "storage associated elsewhere in COMMON",
                            symbol, dep.symbol, <<block>>, 0),
                        <<>>, previous)
            ELSE Branch(s, <<>>, previous)
       ELSE Branch(Say(s, "storage associated across COMMON blocks",
                       symbol, dep.symbol, <<block>>, 0),
                   <<>>, previous)
  ELSE IF dep.offset > s.offset[symbol]
  THEN Branch(Say(s, "cannot backward-extend COMMON", symbol, dep.symbol,
                  <<block>>, 0),
              <<>>, previous)
  ELSE Branch([s EXCEPT !.commonBlock[dep.symbol] = <<block>>,
                        !.offset[dep.symbol] = s.offset[symbol] - dep.offset],
              IF dep.symbol \in DOMAIN s.equivalenceBlock_
              THEN <<dep.symbol>> ELSE <<>>,
              previous \cup {dep.symbol})

\* Lines 250-285.
Member(s, previous, block, symbol) ==
  IF symbol \notin DOMAIN s.dependents_
  THEN IF symbol \in DOMAIN s.equivalenceBlock_
       THEN Branch(DoEquivalenceBlockBase(s, symbol), <<symbol>>, previous)
       ELSE Branch(s, <<>>, previous)
  ELSE Aliased(s, previous, block, symbol, s.dependents_[symbol],
               FindCommonBlockContaining(s, s.dependents_[symbol].symbol))

\* Lines 286-293: the extent of the equivalence block goes into the size.
Extent(acc, branch) ==
  IF HasValue(branch.eqIter)
  THEN [s |-> branch.s,
        minSize |->
          Max(acc.minSize,
              Max(branch.s.offset_,
                  branch.s.offset[branch.eqIter[1]]
                    + branch.s.equivalenceBlock_[branch.eqIter[1]].size)),
        minAlignment |->
          Max(acc.minAlignment,
              branch.s.equivalenceBlock_[branch.eqIter[1]].alignment),
        previous |-> branch.previous]
  ELSE [s |-> branch.s, minSize |-> acc.minSize,
        minAlignment |-> acc.minAlignment, previous |-> branch.previous]

\* One iteration of the loop over details.objects(); acc carries the state,
\* minSize, minAlignment and the set `previous`.
CommonBlockObject(acc, block, symbol) ==
  Extent(acc, Member(PlaceMember(DoSymbol(acc.s, symbol, <<>>), block, symbol),
                     acc.previous \cup {symbol}, block, symbol))

RECURSIVE CommonBlockLoop(_, _, _)
CommonBlockLoop(acc, block, i) ==
  IF i > Len(commonBlocks[block]) THEN acc
  ELSE CommonBlockLoop(CommonBlockObject(acc, block, commonBlocks[block][i]),
                       block, i + 1)

\* Lines 295-296.
CloseBlock(end, block) ==
  [end.s EXCEPT
     !.blockSize[block] = Max(end.minSize, end.s.offset_),
     !.blockAlignment[block] = Max(end.minAlignment, end.s.alignment_)]

DoCommonBlock(s, block) ==
  CloseBlock(CommonBlockLoop([s |-> [s EXCEPT !.offset_ = 0, !.alignment_ = 0],
                              minSize |-> 0, minAlignment |-> 0,
                              previous |-> {}],
                             block, 1),
             block)

\* ------------------------------------------------------------------ Compute
\* A ComputeOffsetsHelper as its constructor leaves it.
FreshHelper(s) ==
  [s EXCEPT !.offset_ = 0, !.alignment_ = 1, !.dependents_ = <<>>,
            !.equivalenceBlock_ = <<>>]

\* Lines 153-169, one iteration: the edge of `symbol` is resolved to its
\* base, the symbol gets its size, and the base's block grows to hold it.
GrowBlock(s, symbol, dep, symInfo) ==
  IF s.size[symbol] # 0
  THEN [s EXCEPT !.aborted = TRUE]   \* CHECK(symbol->size() == 0)
  ELSE [s EXCEPT
          !.dependents_[symbol] = dep,
          !.size[symbol] = symInfo.size,
          !.equivalenceBlock_ =
            IF dep.symbol \notin DOMAIN @
            THEN @ @@ (dep.symbol :> [size |-> dep.offset + symInfo.size,
                                      alignment |-> symInfo.alignment])
            ELSE [@ EXCEPT
                    ![dep.symbol] =
                      [size |-> Max(@.size, dep.offset + symInfo.size),
                       alignment |-> Max(@.alignment, symInfo.alignment)]]]

EquivalenceBlockEntry(s, symbol) ==
  GrowBlock(s, symbol, Resolve(s.dependents_, s.dependents_[symbol]),
            GetSizeAndAlignment(symbol, TRUE))

RECURSIVE EquivalenceBlockLoop(_, _, _)
EquivalenceBlockLoop(s, keys, i) ==
  IF i > Len(keys) \/ s.aborted THEN s
  ELSE EquivalenceBlockLoop(EquivalenceBlockEntry(s, keys[i]), keys, i + 1)

BuildEquivalenceBlocks(s) ==
  EquivalenceBlockLoop(s, Ascending(DOMAIN s.dependents_), 1)

\* Lines 171-177, one iteration.
CoverBlock(s, symbol) ==
  [s EXCEPT !.offset_ =
     Max(@, s.offset[symbol] + s.equivalenceBlock_[symbol].size)]

PlaceBase(s, symbol) ==
  IF HasValue(FindCommonBlockContaining(s, symbol)) THEN s
  ELSE CoverBlock(DoEquivalenceBlockBase(DoSymbol(s, symbol, <<>>).s, symbol),
                  symbol)

RECURSIVE PlaceBaseLoop(_, _, _)
PlaceBaseLoop(s, keys, i) ==
  IF i > Len(keys) THEN s
  ELSE PlaceBaseLoop(PlaceBase(s, keys[i]), keys, i + 1)

PlaceBases(s) == PlaceBaseLoop(s, Ascending(DOMAIN s.equivalenceBlock_), 1)

\* Lines 180-201, one iteration.  The modelled scopes hold no generic
\* interface, so the branch for a generic's specific is never taken.
PlaceRemaining(s, scope, symbol) ==
  IF /\ ~HasValue(FindCommonBlockContaining(s, symbol))
     /\ symbol \notin DOMAIN s.dependents_
     /\ symbol \notin DOMAIN s.equivalenceBlock_
  THEN DoSymbol(s, symbol, IF targetOS = "AIX"
                            THEN HasSpecialAlign(symbol, scope)
                            ELSE <<>>).s
  ELSE s

RECURSIVE PlaceRemainingLoop(_, _, _, _)
PlaceRemainingLoop(s, scope, symbols, i) ==
  IF i > Len(symbols) THEN s
  ELSE PlaceRemainingLoop(PlaceRemaining(s, scope, symbols[i]), scope,
                          symbols, i + 1)

\* Lines 202-205: the size is rounded up and recorded with the alignment.
RecordSize(s, scope, end) ==
  [s EXCEPT !.offset_ = end,
            !.scopeSize[scope] = end,
            !.scopeAlignment[scope] = <<s.alignment_>>]

RecordScope(s, scope) == RecordSize(s, scope, Align(s.offset_, s.alignment_))

PlaceSymbols(s, scope) ==
  RecordScope(PlaceRemainingLoop(s, scope, GetSymbols(scope), 1), scope)

\* Lines 206-212.
RECURSIVE CommonBlocksLoop(_, _, _)
CommonBlocksLoop(s, blocks, i) ==
  IF i > Len(blocks) THEN s
  ELSE CommonBlocksLoop(DoCommonBlock(s, blocks[i]), blocks, i + 1)

DoCommonBlocks(s, scope) ==
  IF scopeKind[scope] # "BlockConstruct"
  THEN CommonBlocksLoop(s, ScopeCommonBlocks(scope), 1)
  ELSE s

\* Lines 213-218, one iteration.
CommitTo(s, symbol, dep, block) ==
  [s EXCEPT !.offset[symbol] = s.offset[dep.symbol] + dep.offset,
            !.commonBlock[symbol] = IF HasValue(block) THEN block ELSE @]

CommitDependent(s, symbol) ==
  CommitTo(s, symbol, s.dependents_[symbol],
           FindCommonBlockContaining(s, s.dependents_[symbol].symbol))

RECURSIVE CommitLoop(_, _, _)
CommitLoop(s, keys, i) ==
  IF i > Len(keys) THEN s
  ELSE CommitLoop(CommitDependent(s, keys[i]), keys, i + 1)

CommitDependents(s) == CommitLoop(s, Ascending(DOMAIN s.dependents_), 1)

\* The guard of line 143 taking the sentinel 0 for "not computed".
AlreadyComputedNonZero(s, scope) ==
  HasValue(s.scopeAlignment[scope]) /\ s.scopeAlignment[scope] # <<0>>

\* Line 143: the scope already carries an alignment.
AlreadyComputed(s, scope) == HasValue(s.scopeAlignment[scope])

\* Lines 170-218 in one piece.
LayOut(s, scope) ==
  IF s.aborted THEN s
  ELSE CommitDependents(
         DoCommonBlocks(PlaceSymbols(PlaceBases(s), scope), scope))

\* Lines 151-218 in one piece.
ResolveAndLayOut(s, scope) ==
  IF s.aborted THEN s ELSE LayOut(BuildEquivalenceBlocks(s), scope)

\* Lines 147-218 in one piece, after the scope is marked.
ComputeBody(s, scope, sets) ==
  ResolveAndLayOut(DoEquivalenceSets(s, ScopeEquivalenceSets(scope, sets), 1),
                   scope)

\* Compute(scope) with the root's equivalence sets in the order `sets`, and
\* ComputeOffsets, which runs it in a helper of its own.
RECURSIVE Compute(_, _, _)
RECURSIVE ComputeChildren(_, _, _, _)

\* The helper of the caller is not the one of the call.
KeepHelper(r, s) ==
  [r EXCEPT !.offset_ = s.offset_, !.alignment_ = s.alignment_,
            !.dependents_ = s.dependents_,
            !.equivalenceBlock_ = s.equivalenceBlock_]

ComputeOffsets(s, scope, sets) ==
  KeepHelper(Compute(FreshHelper(s), scope, sets), s)

ComputeChildren(s, children, sets, i) ==
  IF i > Len(children) \/ s.aborted THEN s
  ELSE ComputeChildren(ComputeOffsets(s, children[i], sets), children, sets,
                       i + 1)

\* Lines 137-146: whether Compute goes on after its early returns.
Proceeds(s, scope) ==
  /\ ~s.aborted
  /\ ~IsDerivedTypeWithKindParameter(scope)
  /\ ~AlreadyComputed(s, scope)

\* Line 146: the scope is marked as being processed.
Mark(s, scope) == [s EXCEPT !.scopeAlignment[scope] = <<0>>]

\* Lines 140-218, once the children are done.
ComputeScope(s, scope, sets) ==
  IF Proceeds(s, scope) THEN ComputeBody(Mark(s, scope), scope, sets) ELSE s

Compute(s, scope, sets) ==
  ComputeScope(ComputeChildren(s, Children(scope), sets, 1), scope, sets)

\* ------------------------------------------------------- the modelled types
\* What the type oracle reports for the declarations used as inputs.
Type(details, category, kind, bytes, elemSize, alignment, shape) ==
  [details |-> details, category |-> category, kind |-> kind, size |-> bytes,
   elemSize |-> elemSize, alignment |-> alignment, shape |-> shape]

Dim(lbound, ubound) == [lbound |-> lbound, ubound |-> ubound]

\* INTEGER(4) :: X
Int4 == Type("ObjectEntity", "Integer", <<4>>, 4, 4, 4, <<>>)
\* REAL(8) :: X
Real8 == Type("ObjectEntity", "Real", <<8>>, 8, 8, 8, <<>>)
\* INTEGER(4) :: X(2)
IntArr == Type("ObjectEntity", "Integer", <<4>>, 8, 4, 4, <<Dim(1, 2)>>)
\* INTEGER(2) :: X(2, 0:1)
Int2Mat == Type("ObjectEntity", "Integer", <<2>>, 8, 2, 2,
                <<Dim(1, 2), Dim(0, 1)>>)
\* CHARACTER(2) :: X
Char2 == Type("ObjectEntity", "Character", <<1>>, 2, 2, 1, <<>>)
\* CHARACTER(0) :: X, which occupies no storage
Char0 == Type("ObjectEntity", "Character", <<1>>, 0, 0, 1, <<>>)
\* a subprogram name: neither an object nor a procedure entity
Subprogram == Type("Subprogram", "None", <<>>, 0, 0, 0, <<>>)

\* The element subscripts a shape admits.
RECURSIVE Subscripts(_)
Subscripts(shape) ==
  IF shape = <<>> THEN {<<>>}
  ELSE {<<i>> \o rest : i \in shape[1].lbound..shape[1].ubound,
                       rest \in Subscripts(Tail(shape))}

Object(symbol, subscripts, substringStart) ==
  [symbol |-> symbol, subscripts |-> subscripts,
   substringStart |-> substringStart]

\* The equivalence objects that can designate `symbol`: the whole scalar,
\* an element of an array, or a substring of a character scalar.
Designators(types, symbol) ==
  LET ty == types[symbol] IN
  IF ty.details # "ObjectEntity" THEN {}
  ELSE IF ty.shape # <<>>
  THEN {Object(symbol, sub, <<>>) : sub \in Subscripts(ty.shape)}
  ELSE IF ty.category = "Character" /\ ty.size > 1
  THEN {Object(symbol, <<>>, start) :
          start \in {<<>>} \cup {<<k>> : k \in 2..ty.size}}
  ELSE {Object(symbol, <<>>, <<>>)}

\* Sequences over S of length lo..hi.
SeqsOf(S, lo, hi) == UNION {[1..n -> S] : n \in lo..hi}

\* Sequences of distinct elements of S of length lo..hi.
DistinctSeqsOf(S, lo, hi) ==
  {q \in SeqsOf(S, lo, hi) : \A i, j \in DOMAIN q : i # j => q[i] # q[j]}

\* --------------------------------------------------------------------- Init
\* commonBlock() of every symbol as the declarations leave it: a member of a
\* common block names its block.
Declared(blocks) ==
  [x \in AllSyms |->
     IF \E b \in DOMAIN blocks : \E i \in DOMAIN blocks[b] : blocks[b][i] = x
     THEN <<CHOOSE b \in DOMAIN blocks :
              \E i \in DOMAIN blocks[b] : blocks[b][i] = x>>
     ELSE <<>>]

\* The state before the first call: nothing laid out.
Start(types, sets, blocks, kinds, os, maxAlign) ==
  /\ symType = types
  /\ equivalenceSets = sets
  /\ commonBlocks = blocks
  /\ scopeKind = kinds
  /\ targetOS = os
  /\ maxAlignment = maxAlign
  /\ offset = [x \in AllSyms |-> 0]
  /\ size = [x \in AllSyms |-> 0]
  /\ commonBlock = Declared(blocks)
  /\ scopeSize = [sc \in Scopes |-> 0]
  /\ scopeAlignment = [sc \in Scopes |-> <<>>]
  /\ blockSize = [b \in DOMAIN blocks |-> 0]
  /\ blockAlignment = [b \in DOMAIN blocks |-> 0]
  /\ messages = <<>>
  /\ aborted = FALSE
  /\ offset_ = 0
  /\ alignment_ = 1
  /\ dependents_ = <<>>
  /\ equivalenceBlock_ = <<>>
  /\ pc = "idle"
  /\ setIndex = 1
  /\ calls = 0
  /\ nested = 0
  /\ alignIn = <<>>
  /\ alignOut = <<>>

\* The child scope: a derived type with two components.
ChildTypes == (NumSyms + 1 :> Int4) @@ (NumSyms + 2 :> Real8)

PlainKinds == (Root :> "Subprogram") @@ (Child :> "DerivedType")

\* ------------------------------------------------------------------ actions
\* The state of the program and of the root call's helper as one record.
Cur ==
  [offset |-> offset, size |-> size, commonBlock |-> commonBlock,
   scopeSize |-> scopeSize, scopeAlignment |-> scopeAlignment,
   blockSize |-> blockSize, blockAlignment |-> blockAlignment,
   messages |-> messages, aborted |-> aborted,
   offset_ |-> offset_, alignment_ |-> alignment_,
   dependents_ |-> dependents_, equivalenceBlock_ |-> equivalenceBlock_]

Becomes(s) ==
  /\ offset' = s.offset
  /\ size' = s.size
  /\ commonBlock' = s.commonBlock
  /\ scopeSize' = s.scopeSize
  /\ scopeAlignment' = s.scopeAlignment
  /\ blockSize' = s.blockSize
  /\ blockAlignment' = s.blockAlignment
  /\ messages' = s.messages
  /\ aborted' = s.aborted
  /\ offset_' = s.offset_
  /\ alignment_' = s.alignment_
  /\ dependents_' = s.dependents_
  /\ equivalenceBlock_' = s.equivalenceBlock_

\* ComputeOffsets(context, root) is called: lines 137-146.  The call either
\* returns at once or marks the scope and goes on to the equivalence sets.
EnterScope(s) ==
  IF Proceeds(s, Root)
  THEN /\ Becomes(Mark(s, Root))
       /\ pc' = "equivalence"
       /\ setIndex' = 1
       /\ calls' = calls
  ELSE /\ Becomes(s)
       /\ pc' = "idle"
       /\ calls' = calls + 1
       /\ UNCHANGED setIndex

ComputeEnter ==
  /\ pc = "idle"
  /\ ~aborted
  /\ calls < MaxCalls
  /\ EnterScope(ComputeChildren(FreshHelper(Cur), Children(Root),
                                equivalenceSets, 1))
  /\ UNCHANGED <<configVars, alignVars, nested>>

\* Line 148-150: one equivalence set.
EquivalenceSetStep ==
  /\ pc = "equivalence"
  /\ ~aborted
  /\ setIndex <= Len(equivalenceSets)
  /\ Becomes(DoEquivalenceSet(Cur, equivalenceSets[setIndex]))
  /\ setIndex' = setIndex + 1
  /\ UNCHANGED <<configVars, alignVars, pc, calls, nested>>

\* Lines 151-169.
EquivalenceBlocksStep ==
  /\ pc = "equivalence"
  /\ ~aborted
  /\ setIndex > Len(equivalenceSets)
  /\ Becomes(BuildEquivalenceBlocks(Cur))
  /\ pc' = "bases"
  /\ UNCHANGED <<configVars, alignVars, setIndex, calls, nested>>

\* Lines 170-177.
PlaceBasesStep ==
  /\ pc = "bases"
  /\ ~aborted
  /\ Becomes(PlaceBases(Cur))
  /\ pc' = "symbols"
  /\ UNCHANGED <<configVars, alignVars, setIndex, calls, nested>>

\* Lines 178-205.
PlaceSymbolsStep ==
  /\ pc = "symbols"
  /\ ~aborted
  /\ Becomes(PlaceSymbols(Cur, Root))
  /\ pc' = "common"
  /\ UNCHANGED <<configVars, alignVars, setIndex, calls, nested>>

\* Lines 206-212.
CommonBlocksStep ==
  /\ pc = "common"
  /\ ~aborted
  /\ Becomes(DoCommonBlocks(Cur, Root))
  /\ pc' = "commit"
  /\ UNCHANGED <<configVars, alignVars, setIndex, calls, nested>>

\* Lines 213-218, and the return of the call.
CommitStep ==
  /\ pc = "commit"
  /\ ~aborted
  /\ Becomes(CommitDependents(Cur))
  /\ pc' = "idle"
  /\ calls' = calls + 1
  /\ UNCHANGED <<configVars, alignVars, setIndex, nested>>

\* While the root is being processed, ComputeOffsets is called again on a
\* scope of the tree; the whole nested call runs before the outer one goes on.
Reenter ==
  /\ pc # "idle"
  /\ ~aborted
  /\ nested < MaxNested
  /\ \E scope \in Scopes : Becomes(ComputeOffsets(Cur, scope, equivalenceSets))
  /\ nested' = nested + 1
  /\ UNCHANGED <<configVars, alignVars, pc, setIndex, calls>>

\* One call after another on the root scope, nothing re-entrant.
NextCompute ==
  \/ ComputeEnter
  \/ EquivalenceSetStep
  \/ EquivalenceBlocksStep
  \/ PlaceBasesStep
  \/ PlaceSymbolsStep
  \/ CommonBlocksStep
  \/ CommitStep

Next ==
  \/ ComputeEnter
  \/ EquivalenceSetStep
  \/ EquivalenceBlocksStep
  \/ PlaceBasesStep
  \/ PlaceSymbolsStep
  \/ CommonBlocksStep
  \/ CommitStep
  \/ Reenter

\* Align is applied to an offset and an alignment, and again to its result.
AlignStep ==
  /\ \E x \in 0..MaxOffset : \E a \in Alignments :
       /\ alignIn' = <<x, a>>
       /\ alignOut' = <<Align(x, a), Align(Align(x, a), a)>>
  /\ UNCHANGED <<configVars, programVars, helperVars, controlVars>>

NextAlign == AlignStep

\* ----------------------------------------------------------------- families
AllDesignators(types) == UNION {Designators(types, x) : x \in RootSyms}

\* Two objects of two different symbols.
PairsOver(types) ==
  {<<a, b>> : a \in AllDesignators(types), b \in AllDesignators(types)}

DistinctPairsOver(types) ==
  {p \in PairsOver(types) : p[1].symbol # p[2].symbol}

RECURSIVE TotalLen(_)
TotalLen(sets) == IF sets = <<>> THEN 0 ELSE Len(Head(sets)) + TotalLen(Tail(sets))

\* The first DataSyms symbols typed from `choice`, the others subprograms.
DataTypes(choice) ==
  {[x \in RootSyms |-> IF x <= DataSyms THEN t[x] ELSE Subprogram] :
     t \in [1..Min(DataSyms, NumSyms) -> choice]}

\* Target and scope kinds that go together.
Variants ==
  { [os |-> "Linux", maxAlign |-> 8,
     kinds |-> (Root :> "Subprogram") @@ (Child :> "DerivedType")],
    [os |-> "Linux", maxAlign |-> 4,
     kinds |-> (Root :> "BlockConstruct")
               @@ (Child :> "DerivedTypeWithKindParameter")],
    [os |-> "AIX", maxAlign |-> 8,
     kinds |-> (Root :> "Subprogram") @@ (Child :> "BindCDerivedType")] }

\* Scalars in up to two common blocks, at most one equivalenced pair, on
\* each of the targets.
InitLayout ==
  \E types \in DataTypes({Int4, Real8}) :
  \E sets \in SeqsOf(DistinctPairsOver(types), 0, 1) :
  \E members \in DistinctSeqsOf(1..Min(DataSyms, NumSyms), 0, 2) :
  \E blocks \in {<<members>>} \cup {[i \in 1..Len(members) |-> <<members[i]>>]} :
  \E v \in Variants :
    Start(types @@ ChildTypes, sets, IF members = <<>> THEN <<>> ELSE blocks,
          v.kinds, v.os, v.maxAlign)

\* An array element equivalenced to a member of a common block.
InitArrays ==
  \E types \in DataTypes({Int4, IntArr}) :
  \E sets \in SeqsOf(DistinctPairsOver(types), 1, 1) :
  \E member \in 1..Min(DataSyms, NumSyms) :
    Start(types @@ ChildTypes, sets, <<<<member>>>>, PlainKinds, "Linux", 8)

Init == InitLayout \/ InitArrays

\* Whole scalars, some of zero size, equivalenced in pairs; no common block.
InitPairs ==
  \E types \in [RootSyms -> {Int4, Real8, Char0}] :
  \E sets \in SeqsOf(DistinctPairsOver(types), 0, MaxZeroSets) :
    Start(types @@ ChildTypes, sets, <<>>, PlainKinds, "Linux", 8)

\* INTEGER(4) :: I, J, K; REAL(8) :: R and the subprogram names.
ScalarTypes ==
  [x \in RootSyms |->
     IF x \in {1, 2, 3} THEN Int4 ELSE IF x = 4 THEN Real8 ELSE Subprogram]

\* Whole scalars of nonzero size equivalenced in pairs; no common block.
InitScalars ==
  \E sets \in SeqsOf(DistinctPairsOver(ScalarTypes), 0, MaxSets) :
    Start(ScalarTypes @@ ChildTypes, sets, <<>>, PlainKinds, "Linux", 8)

\* Array elements and scalars in one or two sets of two or more objects.
InitChains ==
  \E types \in DataTypes({Int4, IntArr}) :
  \E sets \in SeqsOf(SeqsOf(AllDesignators(types), 2, MaxSetLen), 1, 2) :
    /\ TotalLen(sets) <= MaxChainObjects
    /\ Start(types @@ ChildTypes, sets, <<>>, PlainKinds, "Linux", 8)

\* An element of a matrix, a substring and a scalar, equivalenced in pairs.
InitDesignators ==
  \E sets \in SeqsOf(DistinctPairsOver(
                       [x \in RootSyms |->
                          IF x = 1 THEN Int2Mat
                          ELSE IF x = 2 THEN Char2
                          ELSE IF x = 3 THEN Int4 ELSE Subprogram]), 1, 2) :
    Start([x \in RootSyms |->
             IF x = 1 THEN Int2Mat
             ELSE IF x = 2 THEN Char2
             ELSE IF x = 3 THEN Int4 ELSE Subprogram] @@ ChildTypes,
          sets, <<>>, PlainKinds, "Linux", 8)

InitEquiv == InitPairs \/ InitChains \/ InitDesignators

InitOrder == InitScalars \/ InitDesignators

\* INTEGER(4) :: A(2), B, C and the subprogram names.
TieTypes ==
  [x \in RootSyms |->
     IF x = 1 THEN IntArr ELSE IF x \in {2, 3} THEN Int4 ELSE Subprogram]

\* One or two sets over the elements of A and the scalars B and C, where
\* objects tie at offset 0 and, through an earlier set, at larger offsets.
InitTies ==
  \E sets \in SeqsOf(SeqsOf(AllDesignators(TieTypes), 2, MaxSetLen), 1, 2) :
    Start(TieTypes @@ ChildTypes, sets, <<>>, PlainKinds, "Linux", 8)

\* One common block; equivalences only among the symbols outside it.
InitCommon ==
  \E types \in [RootSyms -> {Int4, Real8, Char0}] :
  \E members \in DistinctSeqsOf(RootSyms, 0, MaxMembers) :
  \E sets \in SeqsOf({p \in DistinctPairsOver(types) :
                        \A i \in DOMAIN members :
                          members[i] \notin {p[1].symbol, p[2].symbol}}, 0, 1) :
    Start(types @@ ChildTypes, sets,
          IF members = <<>> THEN <<>> ELSE <<members>>,
          PlainKinds, "Linux", 8)

InitAlign ==
  \E m \in Alignments \ {1} :
    Start([x \in RootSyms |-> Subprogram] @@ ChildTypes, <<>>, <<>>,
          PlainKinds, "Linux", m)

\* ------------------------------------------------------------------- claims
\* A top-level call on the root scope has returned.
Finished == pc = "idle" /\ calls >= 1 /\ ~aborted

\* The step of the loop at line 148 is being taken.
SetStepActs == pc = "equivalence" /\ setIndex' = setIndex + 1

\* Indices of the objects with the largest resolved offset.
Maximal(so) == {i \in DOMAIN so : \A j \in DOMAIN so : so[j].offset <= so[i].offset}

FirstMax(so) == CHOOSE i \in Maximal(so) : \A j \in Maximal(so) : i <= j

LastMax(so) == CHOOSE i \in Maximal(so) : \A j \in Maximal(so) : j <= i

\* After the step every object of another symbol than the r-th one's hangs
\* on the r-th one's symbol.
EdgesLeadTo(so, r) ==
  \A i \in DOMAIN so :
    so[i].symbol # so[r].symbol =>
      /\ so[i].symbol \in DOMAIN dependents_'
      /\ dependents_'[so[i].symbol].symbol = so[r].symbol

\* C9 as stated: the representative of a set is the object with the maximum
\* resolved offset, the first-seen one when several share the maximum, and
\* the other objects become dependents of its base.
C9_FirstSeenRepresentative ==
  [][SetStepActs =>
       EdgesLeadTo(SymbolOffsets(Cur, equivalenceSets[setIndex]),
                   FirstMax(SymbolOffsets(Cur, equivalenceSets[setIndex])))]_vars

\* C9 amended: the representative of a set is the object with the maximum
\* resolved offset, the last-seen one when several share the maximum, and
\* the other objects become dependents of its base.
C9_LastSeenRepresentative ==
  [][SetStepActs =>
       EdgesLeadTo(SymbolOffsets(Cur, equivalenceSets[setIndex]),
                   LastMax(SymbolOffsets(Cur, equivalenceSets[setIndex])))]_vars

\* The first set has been processed, two objects of different symbols tied
\* for the maximum, and the earlier one hangs on the later one.
C9_TieSeen ==
  /\ pc = "equivalence"
  /\ setIndex = 2
  /\ \E i, j \in DOMAIN equivalenceSets[1] :
       /\ i < j
       /\ equivalenceSets[1][i].symbol # equivalenceSets[1][j].symbol
       /\ ComputeOffset(equivalenceSets[1][i]) = ComputeOffset(equivalenceSets[1][j])
       /\ \A k \in DOMAIN equivalenceSets[1] :
            ComputeOffset(equivalenceSets[1][k]) <= ComputeOffset(equivalenceSets[1][j])
       /\ equivalenceSets[1][i].symbol \in DOMAIN dependents_
       /\ dependents_[equivalenceSets[1][i].symbol].symbol
            = equivalenceSets[1][j].symbol

\* Two objects of the set resolve to one symbol at different offsets.
Conflict(so) ==
  \E i, j \in DOMAIN so :
    so[i].symbol = so[j].symbol /\ so[i].offset # so[j].offset

\* C3: whenever two objects of a set resolve to the same symbol at different
\* resolved offsets, DoEquivalenceSet reports an error, and every dependency
\* edge and offset recorded before is left unchanged.
C3_ConflictReported ==
  [][SetStepActs =>
       /\ Conflict(SymbolOffsets(Cur, equivalenceSets[setIndex])) =>
            /\ Len(messages') > Len(messages)
            /\ messages'[Len(messages')].severity = "error"
       /\ \A x \in DOMAIN dependents_ :
            x \in DOMAIN dependents_' /\ dependents_'[x] = dependents_[x]
       /\ offset' = offset]_vars

\* All the objects of the set lie on one byte of one storage region.
SameFirstByte(set) ==
  \A i, j \in DOMAIN set :
    commonBlock[set[i].symbol] = commonBlock[set[j].symbol] =>
      offset[set[i].symbol] + ComputeOffset(set[i])
        = offset[set[j].symbol] + ComputeOffset(set[j])

\* C1: after Compute has finished on a scope without reporting a diagnostic,
\* all the objects of every equivalence set of the scope are on the same
\* first storage byte.
C1_SetsShareFirstByte ==
  (Finished /\ messages = <<>>) =>
    \A k \in DOMAIN equivalenceSets : SameFirstByte(equivalenceSets[k])

\* The symbols some equivalence set names together with one of S.
Linked(S) ==
  S \cup UNION {{equivalenceSets[k][i].symbol : i \in DOMAIN equivalenceSets[k]} :
                  k \in {k \in DOMAIN equivalenceSets :
                           \E j \in DOMAIN equivalenceSets[k] :
                             equivalenceSets[k][j].symbol \in S}}

\* The equivalence group of the symbols S.
RECURSIVE Group(_)
Group(S) == IF Linked(S) = S THEN S ELSE Group(Linked(S))

\* The bytes the type of the symbol occupies.
StorageSize(x) == GetSizeAndAlignment(x, TRUE).size

Disjoint(x, y) ==
  \/ offset[x] + StorageSize(x) <= offset[y]
  \/ offset[y] + StorageSize(y) <= offset[x]

\* C10: in a scope without common blocks, after Compute the byte ranges of
\* two nonzero-size symbols that are not in one equivalence group are
\* disjoint, whatever the sizes, a zero-size base included.
C10_NoAccidentalOverlap ==
  (Finished /\ messages = <<>> /\ commonBlocks = <<>>) =>
    \A x, y \in RootSyms :
      (x # y /\ StorageSize(x) > 0 /\ StorageSize(y) > 0 /\ y \notin Group({x}))
        => Disjoint(x, y)

\* The root scope and its symbols before any call, with a fresh helper.
Unprocessed ==
  [offset |-> [x \in AllSyms |-> 0], size |-> [x \in AllSyms |-> 0],
   commonBlock |-> Declared(commonBlocks),
   scopeSize |-> [sc \in Scopes |-> 0],
   scopeAlignment |-> [sc \in Scopes |-> <<>>],
   blockSize |-> [b \in DOMAIN commonBlocks |-> 0],
   blockAlignment |-> [b \in DOMAIN commonBlocks |-> 0],
   messages |-> <<>>, aborted |-> FALSE,
   offset_ |-> 0, alignment_ |-> 1, dependents_ |-> <<>>,
   equivalenceBlock_ |-> <<>>]

\* The orders the equivalence sets of the root scope can be taken in.
Orders ==
  {[i \in DOMAIN equivalenceSets |-> equivalenceSets[p[i]]] :
     p \in {q \in [DOMAIN equivalenceSets -> DOMAIN equivalenceSets] :
              \A i, j \in DOMAIN equivalenceSets : i # j => q[i] # q[j]}}

\* The symbols the equivalence sets name.
Equivalenced ==
  UNION {{equivalenceSets[k][i].symbol : i \in DOMAIN equivalenceSets[k]} :
           k \in DOMAIN equivalenceSets}

\* The sets do not conflict: some placement of the symbols puts the objects
\* of every set on one byte.
Consistent ==
  \E f \in [Equivalenced -> 0..MaxSpread] :
    \A k \in DOMAIN equivalenceSets :
      \A i, j \in DOMAIN equivalenceSets[k] :
        f[equivalenceSets[k][i].symbol] + ComputeOffset(equivalenceSets[k][i])
          = f[equivalenceSets[k][j].symbol] + ComputeOffset(equivalenceSets[k][j])

\* The first call on the root scope has returned.
Returned == pc = "idle" /\ calls = 1 /\ ~aborted

\* C4 as stated: with non-conflicting sets, Compute with the sets taken in
\* any permuted order yields the same final offset for every symbol.
C4_OrderIndependent ==
  (Returned /\ Consistent) =>
    \A sets \in Orders : Compute(Unprocessed, Root, sets).offset = offset

\* C4 amended: with non-conflicting sets, Compute with the sets taken in a
\* permuted order that makes the same symbols the bases of the equivalence
\* groups yields the same final offset for every symbol.
C4_SameBasesSameOffsets ==
  (Returned /\ Consistent) =>
    \A sets \in Orders :
      LET permuted == Compute(Unprocessed, Root, sets)
      IN DOMAIN permuted.equivalenceBlock_ = DOMAIN equivalenceBlock_
           => permuted.offset = offset

\* Non-conflicting sets have been taken in one order, another order picks
\* the same bases, and an object that is not the first byte of its symbol
\* hangs on a base.
C4_Permuted ==
  /\ Returned /\ Consistent
  /\ \E sets \in Orders :
       /\ sets # equivalenceSets
       /\ DOMAIN Compute(Unprocessed, Root, sets).equivalenceBlock_
            = DOMAIN equivalenceBlock_
  /\ \E x \in DOMAIN dependents_ : ComputeOffset(dependents_[x].object) > 0

\* The errors DoCommonBlock reports about a member aliased to a base.
CommonBlockErrors ==
  {"storage associated elsewhere in COMMON",
   "storage associated across COMMON blocks",
   "cannot backward-extend COMMON"}

\* C2: when DoCommonBlock has reported a storage-association error for a
\* member, the end of Compute leaves the member at the offset the layout of
\* its own common block gave it, and in its own common block.
C2_ConflictingEdgeNotApplied ==
  [][(pc = "commit" /\ pc' = "idle") =>
       \A k \in DOMAIN messages :
         messages[k].text \in CommonBlockErrors =>
           /\ offset'[messages[k].symbol] = offset[messages[k].symbol]
           /\ commonBlock'[messages[k].symbol] = commonBlock[messages[k].symbol]]_vars

\* C5: for every scope Compute has finished processing, the recorded size
\* is a multiple of the recorded alignment.
C5_SizeMultipleOfAlignment ==
  \A scope \in Scopes :
    (HasValue(scopeAlignment[scope]) /\ scopeAlignment[scope] # <<0>>) =>
      scopeSize[scope] % scopeAlignment[scope][1] = 0

\* C6: a call of Compute on the root scope that is already processed, and a
\* re-entrant call made while the root scope is being processed, change no
\* size, alignment, offset or common-block membership and emit no
\* diagnostic.
C6_SecondCallIsNoOp ==
  [][(\/ /\ pc = "idle" /\ calls >= 1
         /\ HasValue(scopeAlignment[Root])
         /\ (pc' # pc \/ calls' # calls)
      \/ nested' = nested + 1)
       => UNCHANGED programVars]_vars

\* A second call and a re-entrant call have been made on a scope that holds
\* storage.
C6_CalledAgain ==
  /\ pc = "idle" /\ calls >= 2 /\ nested >= 1
  /\ scopeSize[Root] > 0
  /\ \E x \in RootSyms : offset[x] > 0

\* The alignment the type of the symbol asks for.
StorageAlignment(x) == GetSizeAndAlignment(x, TRUE).alignment

\* Where the sequential layout of the members m puts member i.
RECURSIVE StartOf(_, _)
StartOf(m, i) ==
  Align(IF i = 1 THEN 0 ELSE StartOf(m, i - 1) + StorageSize(m[i - 1]),
        StorageAlignment(m[i]))

\* The end of member i, 0 for i = 0.
EndOf(m, i) == IF i = 0 THEN 0 ELSE StartOf(m, i) + StorageSize(m[i])

\* The padding warnings of the sequential layout from member i on.
RECURSIVE PaddingOf(_, _)
PaddingOf(m, i) ==
  IF i > Len(m) THEN <<>>
  ELSE (IF StartOf(m, i) > EndOf(m, i - 1)
        THEN <<[symbol |-> m[i], bytes |-> StartOf(m, i) - EndOf(m, i - 1)]>>
        ELSE <<>>) \o PaddingOf(m, i + 1)

\* The padding warnings that were emitted.
RECURSIVE Paddings(_)
Paddings(msgs) ==
  IF msgs = <<>> THEN <<>>
  ELSE (IF Head(msgs).text = "requires padding"
        THEN <<[symbol |-> Head(msgs).symbol, bytes |-> Head(msgs).bytes]>>
        ELSE <<>>) \o Paddings(Tail(msgs))

RECURSIVE MaxAlignment(_)
MaxAlignment(m) ==
  IF m = <<>> THEN 0 ELSE Max(StorageAlignment(Head(m)), MaxAlignment(Tail(m)))

\* The block, whose members are m, is laid out as the sequence m.
LaidOutInOrder(block, m) ==
  /\ \A i \in DOMAIN m : offset[m[i]] = StartOf(m, i)
  /\ Paddings(messages) = PaddingOf(m, 1)
  /\ blockSize[block] = EndOf(m, Len(m))
  /\ blockAlignment[block] = MaxAlignment(m)

NonZeroSize(x) == StorageSize(x) > 0

\* C7 as stated: a common block without equivalenced members has its
\* members in declaration order from 0, each at the end of the one before
\* rounded up to its alignment, a padding warning exactly for the gaps, the
\* end of the last member as size and the largest alignment as alignment.
C7_MembersInOrder ==
  Finished =>
    \A block \in DOMAIN commonBlocks :
      LaidOutInOrder(block, commonBlocks[block])

\* C7 amended: the same of the members of nonzero size; a member of zero
\* size is skipped, gets no offset and no warning and does not count for
\* the alignment.
C7_NonZeroMembersInOrder ==
  Finished =>
    \A block \in DOMAIN commonBlocks :
      /\ LaidOutInOrder(block, SelectSeq(commonBlocks[block], NonZeroSize))
      /\ \A i \in DOMAIN commonBlocks[block] :
           ~NonZeroSize(commonBlocks[block][i])
             => offset[commonBlocks[block][i]] = 0

\* A block has been laid out with padding before a member and with a member
\* of zero size.
C7_PaddedBlock ==
  /\ Finished
  /\ \E block \in DOMAIN commonBlocks :
       /\ \E i \in DOMAIN commonBlocks[block] :
            ~NonZeroSize(commonBlocks[block][i])
       /\ blockSize[block] > 8
  /\ Paddings(messages) # <<>>

\* C8: Align(Align(x, a), a) = Align(x, a), Align(x, a) >= x, and
\* Align(x, a) is a multiple of min(a, targetMax).
C8_AlignRoundsUp ==
  alignIn # <<>> =>
    /\ alignOut[2] = alignOut[1]
    /\ alignOut[1] >= alignIn[1]
    /\ alignOut[1] % Min(alignIn[2], maxAlignment) = 0

\* Align has rounded an offset up to the target's maximum, the alignment
\* asked for being larger.
C8_Clamped ==
  /\ alignIn # <<>>
  /\ alignIn[2] > maxAlignment
  /\ alignOut[1] > alignIn[1]
  /\ alignOut[1] % alignIn[2] # 0

Spec == Init /\ [][Next]_vars
SpecEquiv == InitEquiv /\ [][NextCompute]_vars
SpecOrder == InitOrder /\ [][NextCompute]_vars
SpecTies == InitTies /\ [][NextCompute]_vars
SpecCommon == InitCommon /\ [][NextCompute]_vars
SpecAlign == InitAlign /\ [][NextAlign]_vars
====
